---- MODULE Spec2Model ----
(***************************************************************************)
(* bevy_clouds: the volume loader (src/volume/loader.rs), the render-graph *)
(* registration (src/cloud.rs) and the per-view compositing node           *)
(* (src/cloud/node.rs, and the older copy of it in src/cloud.rs).          *)
(***************************************************************************)
EXTENDS Integers, Sequences, FiniteSets, TLC

\* ------------------------------------------------------------------ bounds
NumViews == 2
MaxFrames == 2
\* The decoder's inputs: boxes of up to MaxExtent voxels a side, grids of up to
\* MaxEntries populated voxels.
MaxExtent == 2
MaxEntries == 2
\* The loads of the volume file: the first one and the reloads.
MaxLoads == 2

Views == 1..NumViews

\* ------------------------------------------------- render graph (cloud.rs)
\* CloudRenderNode::NAME
NAME == "volumetric_clouds"
\* core_3d::graph::node::*: the host graph's stages the plugin names, and the
\* main pass that the host orders before END_MAIN_PASS.
MAIN_PASS == "main_pass"
END_MAIN_PASS == "end_main_pass"
BLOOM == "bloom"

\* add_render_graph_edges(graph, &[n1, n2, ...]): an edge between each two
\* consecutive names.
add_render_graph_edges(names) ==
    { <<names[i], names[i + 1]>> : i \in 1..(Len(names) - 1) }

\* The edges the host's 3D graph has before the plugin is built.
HostEdges == add_render_graph_edges(<<MAIN_PASS, END_MAIN_PASS, BLOOM>>)

PluginEdgesAfterOnly == add_render_graph_edges(<<NAME, BLOOM>>)

\* CloudRenderPlugin::build: the edges it adds for the cloud node.
PluginEdges == add_render_graph_edges(<<END_MAIN_PASS, NAME, BLOOM>>)

\* CloudRenderPlugin::build: the node it adds under NAME.
PluginNodes == {NAME}

GraphNodes == {MAIN_PASS, END_MAIN_PASS, BLOOM} \cup PluginNodes
GraphEdges == HostEdges \cup PluginEdges

\* The graph runner: a node is ready once every node with an edge into it
\* has run for this view.
Ready(n, ranSet) ==
    /\ n \notin ranSet
    /\ \A e \in GraphEdges : e[2] = n => e[1] \in ranSet

\* ------------------------------------------------ volume decoder (loader.rs)
\* IVec3 arithmetic, component-wise.
IVec3Sub(a, b) == <<a[1] - b[1], a[2] - b[2], a[3] - b[3]>>
IVec3Add(a, b) == <<a[1] + b[1], a[2] + b[2], a[3] + b[3]>>

\* `i as u32` of an i32: the value itself when it is not negative, else the
\* two's complement wrap. The inputs explored keep aabb >= 0.
AsU32(i) == IF i >= 0 THEN i ELSE i + 2^32

\* `f as usize` of an f32 holding an integer: a negative value saturates to 0.
AsUsize(f) == IF f < 0 THEN 0 ELSE f

\* half::f16::to_ne_bytes: the two bytes of the 16-bit pattern, low byte first
\* (little-endian targets).
to_ne_bytes(value) == <<value % 256, value \div 256>>

\* VolumeLoaderError: the three variants the loader can return.
VolumeLoaderError == {"IoError", "FailedToParseVolume", "GridMetadataError"}

\* The streams a load can be given: what the reader and vdb_rs make of it.
StreamKinds ==
    {"io_error", "malformed", "no_grids", "bad_grid", "no_aabb_max", "no_aabb_min", "ok"}

NoImage == [size |-> <<0, 0, 0>>, data |-> <<>>, dimension |-> "none",
            format |-> "none", mip_level_count |-> 0, address_mode |-> "none",
            filter |-> "none"]

\* The outcomes of load: Err(e) through `?`, a panic, or Ok(image).
\* `allocated` tells whether image_data.resize was reached.
LoadErr(e) == [outcome |-> "Err", error |-> e, allocated |-> FALSE, image |-> NoImage]
LoadPanic(alloc) ==
    [outcome |-> "panic", error |-> "none", allocated |-> alloc, image |-> NoImage]
LoadOk(img) == [outcome |-> "Ok", error |-> "none", allocated |-> TRUE, image |-> img]

ExtentExclusive(aabb_min, aabb_max) == IVec3Sub(aabb_max, aabb_min)

\* let aabb = aabb_max - aabb_min + IVec3::new(1, 1, 1)
Extent(aabb_min, aabb_max) == IVec3Add(IVec3Sub(aabb_max, aabb_min), <<1, 1, 1>>)

\* Extent3d { width: aabb.x as u32, height: aabb.y as u32, depth: aabb.z as u32 }
Extent3d(aabb) == <<AsU32(aabb[1]), AsU32(aabb[2]), AsU32(aabb[3])>>

ByteLenNoElementSize(size) == size[1] * size[2] * size[3]

\* (width as u64 * height as u64 * depth as u64 * 2) as usize
ByteLen(size) == size[1] * size[2] * size[3] * 2

IndexOfNoDepthStride(pos, aabb_min, size) ==
    LET x == AsUsize(pos[1] - aabb_min[1])
        y == AsUsize(pos[2] - aabb_min[2])
        z == AsUsize(pos[3] - aabb_min[3])
    IN (x + y * size[1] + z * size[1]) * 2

IndexOfSwappedStrides(pos, aabb_min, size) ==
    LET x == AsUsize(pos[1] - aabb_min[1])
        y == AsUsize(pos[2] - aabb_min[2])
        z == AsUsize(pos[3] - aabb_min[3])
    IN (x + y * size[2] + z * size[1] * size[2]) * 2

\* index = (x + y * width + z * width * height) * 2 of the closure
IndexOf(pos, aabb_min, size) ==
    LET x == AsUsize(pos[1] - aabb_min[1])
        y == AsUsize(pos[2] - aabb_min[2])
        z == AsUsize(pos[3] - aabb_min[3])
    IN (x + y * size[1] + z * size[1] * size[2]) * 2

\* grid.iter().for_each(...) from entry i on: image_data[index] and
\* image_data[index + 1] are bounds-checked writes, so an index at or past the
\* length panics; nothing else stops the loop.
RECURSIVE Fill(_, _, _, _, _)
Fill(entries, i, data, aabb_min, size) ==
    IF i > Len(entries) THEN [panic |-> FALSE, data |-> data]
    ELSE LET index == IndexOf(entries[i].pos, aabb_min, size)
             bytes == to_ne_bytes(entries[i].value)
         IN IF index >= Len(data) \/ index + 1 >= Len(data)
            THEN [panic |-> TRUE, data |-> data]
            ELSE Fill(entries, i + 1,
                      [data EXCEPT ![index + 1] = bytes[1], ![index + 2] = bytes[2]],
                      aabb_min, size)

\* VolumeLoader::load, the whole future.
load(inp) ==
    IF inp.stream = "io_error" THEN LoadErr("IoError")
    ELSE IF inp.stream = "malformed" THEN LoadErr("FailedToParseVolume")
    ELSE IF inp.stream = "no_grids" THEN LoadPanic(FALSE)
    ELSE IF inp.stream = "bad_grid" THEN LoadErr("FailedToParseVolume")
    ELSE IF inp.stream = "no_aabb_max" THEN LoadErr("GridMetadataError")
    ELSE IF inp.stream = "no_aabb_min" THEN LoadErr("GridMetadataError")
    ELSE LET aabb == Extent(inp.aabb_min, inp.aabb_max)
             size == Extent3d(aabb)
             zeroed == [k \in 1..ByteLen(size) |-> 0]
             filled == Fill(inp.entries, 1, zeroed, inp.aabb_min, size)
         IN IF filled.panic THEN LoadPanic(TRUE)
            ELSE LoadOk([size |-> size, data |-> filled.data, dimension |-> "D3",
                         format |-> "R16Float", mip_level_count |-> 1,
                         address_mode |-> "ClampToEdge", filter |-> "Linear"])

\* The populated voxels a stream can hold: positions at most one voxel outside
\* the box on one axis (a corrupt grid), and three half-precision patterns:
\* 1.0 (0x3C00), 0.5 (0x3800) and 0.1 (0x2E66, both bytes non-zero).
HalfValues == {15360, 14336, 11878}

MinCorner == <<-1, 0, 1>>

GridBoxes ==
    { [aabb_min |-> MinCorner,
       aabb_max |-> IVec3Add(MinCorner, <<ex - 1, ey - 1, ez - 1>>)] :
        ex \in 0..MaxExtent, ey \in 0..MaxExtent, ez \in 0..MaxExtent }

InBox(b) ==
    { <<x, y, z>> : x \in b.aabb_min[1]..b.aabb_max[1],
                    y \in b.aabb_min[2]..b.aabb_max[2],
                    z \in b.aabb_min[3]..b.aabb_max[3] }

\* The positions one voxel below aabb_min or above aabb_max on one axis.
OutOfBox(b) ==
    LET xs == b.aabb_min[1]..b.aabb_max[1]
        ys == b.aabb_min[2]..b.aabb_max[2]
        zs == b.aabb_min[3]..b.aabb_max[3]
    IN { <<x, y, z>> : x \in {b.aabb_min[1] - 1, b.aabb_max[1] + 1}, y \in ys, z \in zs }
       \cup { <<x, y, z>> : x \in xs, y \in {b.aabb_min[2] - 1, b.aabb_max[2] + 1}, z \in zs }
       \cup { <<x, y, z>> : x \in xs, y \in ys, z \in {b.aabb_min[3] - 1, b.aabb_max[3] + 1} }

Near(b) == InBox(b) \cup OutOfBox(b)

\* The value of a grid's next voxel: any for the first, then the next pattern
\* in turn, so that consecutive voxels differ.
NextValues(g) ==
    IF g = <<>> THEN HalfValues
    ELSE LET v == g[Len(g)].value
         IN { IF v = 15360 THEN 14336 ELSE IF v = 14336 THEN 11878 ELSE 15360 }

\* The iteration order of a grid: by position, z-major.
Key(pos) == pos[1] + 8 * pos[2] + 64 * pos[3]

\* A sparse grid holds each position once, and is iterated in Key order: the
\* voxels that can follow the voxels g of a grid in box b.
NextVoxels(b, g) ==
    { [pos |-> p, value |-> v] :
        p \in { q \in Near(b) : g = <<>> \/ Key(g[Len(g)].pos) < Key(q) },
        v \in NextValues(g) }

Stream(kind, b, g) ==
    [stream |-> kind, aabb_min |-> b.aabb_min, aabb_max |-> b.aabb_max, entries |-> g]

UnitBox == [aabb_min |-> <<0, 0, 0>>, aabb_max |-> <<1, 1, 1>>]

Boxes == GridBoxes \cup {UnitBox}

\* The grid of the spec's worked example.
ExampleStream ==
    Stream("ok", UnitBox, << [pos |-> <<0, 0, 0>>, value |-> 15360],
                             [pos |-> <<1, 1, 1>>, value |-> 14336] >>)

\* The streams that fail before the grid is read.
BadStreams == { Stream(k, UnitBox, <<>>) : k \in StreamKinds \ {"ok"} }

\* A grid with a voxel one past aabb_max on x.
CorruptStream ==
    Stream("ok", UnitBox, << [pos |-> <<2, 1, 1>>, value |-> 15360] >>)

\* The streams the running application is given in the full model.
SampleStreams ==
    { ExampleStream, CorruptStream, Stream("io_error", UnitBox, <<>>),
      Stream("no_grids", UnitBox, <<>>) }

\* ------------------------------------------- the pipeline (cloud/pipeline.rs)
VERTEX_FRAGMENT == {"VERTEX", "FRAGMENT"}
FRAGMENT == {"FRAGMENT"}

\* BindGroupLayoutEntry { binding, visibility, ty: BindingType::Buffer {
\*   ty: BufferBindingType::Uniform, has_dynamic_offset, min_binding_size } }
UniformEntry(binding, visibility, has_dynamic_offset, min_binding_size) ==
    [binding |-> binding, visibility |-> visibility, ty |-> "Buffer",
     buffer |-> "Uniform", has_dynamic_offset |-> has_dynamic_offset,
     min_binding_size |-> min_binding_size,
     sample_type |-> "none", view_dimension |-> "none", sampler |-> "none"]

\* BindGroupLayoutEntry { .. ty: BindingType::Texture { sample_type:
\*   TextureSampleType::Float { filterable: true }, view_dimension,
\*   multisampled: false } }
TextureEntry(binding, visibility, view_dimension) ==
    [binding |-> binding, visibility |-> visibility, ty |-> "Texture",
     buffer |-> "none", has_dynamic_offset |-> FALSE, min_binding_size |-> "none",
     sample_type |-> "Float { filterable: true }",
     view_dimension |-> view_dimension, sampler |-> "none"]

\* BindGroupLayoutEntry { .. ty: BindingType::Sampler(SamplerBindingType::Filtering) }
SamplerEntry(binding, visibility) ==
    [binding |-> binding, visibility |-> visibility, ty |-> "Sampler",
     buffer |-> "none", has_dynamic_offset |-> FALSE, min_binding_size |-> "none",
     sample_type |-> "none", view_dimension |-> "none", sampler |-> "Filtering"]

post_process_layout_AllDynamic ==
    << UniformEntry(0, VERTEX_FRAGMENT, TRUE, "ViewUniform"),
       UniformEntry(1, FRAGMENT, TRUE, "GpuLights"),
       TextureEntry(2, FRAGMENT, "D2"),
       SamplerEntry(3, FRAGMENT),
       TextureEntry(4, FRAGMENT, "D3"),
       SamplerEntry(5, FRAGMENT),
       UniformEntry(6, FRAGMENT, TRUE, "CloudSettings") >>

\* The entries of "cloud_bind_group_layout", in the order from_world lists them.
post_process_layout ==
    << UniformEntry(0, VERTEX_FRAGMENT, TRUE, "ViewUniform"),
       UniformEntry(1, FRAGMENT, TRUE, "GpuLights"),
       TextureEntry(2, FRAGMENT, "D2"),
       SamplerEntry(3, FRAGMENT),
       TextureEntry(4, FRAGMENT, "D3"),
       SamplerEntry(5, FRAGMENT),
       UniformEntry(6, FRAGMENT, FALSE, "CloudSettings") >>

\* render_device.create_sampler(&SamplerDescriptor::default())
sampler == [descriptor |-> "SamplerDescriptor::default()"]

\* CloudPipeline::from_world with n pipelines queued in the cache before it:
\* the resource it returns, its pipeline the n-th of the cache.
from_world(n) ==
    [post_process_layout |-> post_process_layout, sampler |-> sampler,
     pipeline_id |-> n]

\* ------------------------------------------ the settings (cloud/settings.rs)
Field(name, ty) == [name |-> name, ty |-> ty]

CloudSettingsSwapped(b) ==
    IF b = "node_rs"
    THEN << Field("bounds_min", "Vec3"), Field("bounds_max", "Vec3"),
            Field("steps", "u32"), Field("light_steps", "u32"),
            Field("light_absorption_sun", "f32"), Field("light_absorption", "f32"),
            Field("darkness_threshold", "f32"), Field("ray_offset_strength", "f32"),
            Field("forward_scattering", "f32"), Field("back_scattering", "f32"),
            Field("base_brightness", "f32"), Field("phase_factor", "f32") >>
    ELSE << Field("bounds_min", "Vec3"), Field("bounds_max", "Vec3"),
            Field("steps", "u32"), Field("light_steps", "u32"),
            Field("light_transmittance", "f32"), Field("light_absorption", "f32"),
            Field("light_absorption_sun", "f32"), Field("darkness_threshold", "f32") >>

\* struct CloudSettings, the ShaderType uploaded as the settings uniform: the
\* one of cloud/settings.rs that node.rs and pipeline.rs use, and the one of
\* cloud.rs.
CloudSettings(b) ==
    IF b = "node_rs"
    THEN << Field("bounds_min", "Vec3"), Field("bounds_max", "Vec3"),
            Field("steps", "u32"), Field("light_steps", "u32"),
            Field("light_absorption", "f32"), Field("light_absorption_sun", "f32"),
            Field("darkness_threshold", "f32"), Field("ray_offset_strength", "f32"),
            Field("forward_scattering", "f32"), Field("back_scattering", "f32"),
            Field("base_brightness", "f32"), Field("phase_factor", "f32") >>
    ELSE << Field("bounds_min", "Vec3"), Field("bounds_max", "Vec3"),
            Field("steps", "u32"), Field("light_steps", "u32"),
            Field("light_absorption", "f32"), Field("light_transmittance", "f32"),
            Field("light_absorption_sun", "f32"), Field("darkness_threshold", "f32") >>

\* ---------------------------------------------------------------- the state
VARIABLES
    build,          \* which copy of the node is compiled: "node_rs" or "cloud_rs"
    request,        \* the stream the asset server hands to VolumeLoader::load
    asset,          \* the load: [status, result]
    task,           \* the load task in flight, when its steps are followed
    pipeline,       \* PipelineCache's state of CloudPipeline.pipeline_id
    cloud_pipeline, \* the CloudPipeline resource
    queued,         \* the calls of queue_render_pipeline so far
    cloud_volume,   \* the CloudVolume resource is in the render world
    uniforms,       \* the uniform buffers that have a binding this frame
    frame,          \* frames begun
    main_texture,   \* per view: which texture of the pair is the main one
    tex,            \* per view and texture: what it holds
    cur,            \* the view whose graph is running, 0 when none
    ran,            \* the nodes run for cur, in order
    done,           \* the views finished this frame
    seen,           \* per view: what bloom found in the main texture
    last            \* the node's last invocation

vars == <<build, request, asset, task, pipeline, cloud_pipeline, queued, cloud_volume,
          uniforms, frame, main_texture, tex, cur, ran, done, seen, last>>

nodeVars == <<build, task, pipeline, cloud_pipeline, queued, cloud_volume, uniforms, frame,
              main_texture, tex, cur, ran, done, seen, last>>

Builds == {"node_rs", "cloud_rs"}
UniformNames == {"view", "light", "settings"}
Preconditions == {"pipeline", "view", "light", "texture", "settings"}
NoTex == <<0, 0>>

\* What the node does in one run, before any run.
NoRun ==
    [invoked |-> FALSE, view |-> 0, result |-> "none", absent |-> {},
     flipped |-> FALSE, source |-> NoTex, destination |-> NoTex,
     bind_groups |-> 0, entries |-> <<>>,
     passes |-> 0, target |-> NoTex, color_attachments |-> <<>>,
     depth_stencil |-> "none", commands |-> <<>>,
     pipeline_set |-> FALSE, group |-> -1, offsets |-> <<>>,
     draws |-> 0, vertices |-> 0, instances |-> 0, queued |-> 0]

Loading == [status |-> "loading", result |-> LoadErr("none")]

\* No load task is followed.
Idle(loads) ==
    [pc |-> "idle", loads |-> loads, next |-> 0, size |-> <<0, 0, 0>>,
     image_data |-> <<>>, result |-> LoadErr("none")]

InitNode ==
    /\ build \in Builds
    /\ pipeline = "queued"
    /\ cloud_pipeline = from_world(0)
    /\ queued = 1
    /\ cloud_volume = FALSE
    /\ uniforms = {}
    /\ frame = 0
    /\ main_texture = [v \in Views |-> 0]
    /\ tex = [v \in Views |-> [i \in 0..1 |-> "stale"]]
    /\ cur = 0
    /\ ran = <<>>
    /\ done = Views
    /\ seen = [v \in Views |-> "none"]
    /\ last = NoRun

Init ==
    /\ InitNode
    /\ request \in SampleStreams
    /\ asset = Loading
    /\ task = Idle(0)

\* ------------------------------------------- the compositing node (node.rs)
PresentTextureNeverFound(p) ==
    CASE p = "pipeline" -> pipeline = "ok"
      [] p = "view" -> "view" \in uniforms
      [] p = "light" -> "light" \in uniforms
      [] p = "texture" -> FALSE
      [] p = "settings" -> "settings" \in uniforms

PresentAnyPipelineState(p) ==
    CASE p = "pipeline" -> pipeline # "queued"
      [] p = "view" -> "view" \in uniforms
      [] p = "light" -> "light" \in uniforms
      [] p = "texture" -> cloud_volume /\ asset.status = "loaded"
      [] p = "settings" -> "settings" \in uniforms

PresentResourceOnly(p) ==
    CASE p = "pipeline" -> pipeline = "ok"
      [] p = "view" -> "view" \in uniforms
      [] p = "light" -> "light" \in uniforms
      [] p = "texture" -> cloud_volume
      [] p = "settings" -> "settings" \in uniforms

\* What each `let Some(..) = .. else { return Ok(()) }` of run looks at.
Present(p) ==
    CASE p = "pipeline" -> pipeline = "ok"
      [] p = "view" -> "view" \in uniforms
      [] p = "light" -> "light" \in uniforms
      [] p = "texture" -> cloud_volume /\ asset.status = "loaded"
      [] p = "settings" -> "settings" \in uniforms

Absent == { p \in Preconditions : ~Present(p) }

\* The early returns that come before view_target.post_process_write() in
\* run: node.rs checks the volume and its texture first, cloud.rs after.
ChecksBeforeWrite(b) ==
    IF b = "node_rs" THEN {"pipeline", "view", "light", "texture"}
    ELSE {"pipeline", "view", "light"}

ChecksAfterWriteNoSettings(b) == (Preconditions \ ChecksBeforeWrite(b)) \ {"settings"}

\* The early returns that come after it.
ChecksAfterWrite(b) == Preconditions \ ChecksBeforeWrite(b)

post_process_write_FirstView(v) ==
    [source |-> <<1, main_texture[1]>>,
     destination |-> <<1, 1 - main_texture[1]>>,
     main |-> 1 - main_texture[1]]

\* ViewTarget::post_process_write: the current main texture is the source, the
\* other one of the pair the destination, and the main texture flips to it.
post_process_write(v) ==
    [source |-> <<v, main_texture[v]>>,
     destination |-> <<v, 1 - main_texture[v]>>,
     main |-> 1 - main_texture[v]]

BindGroupEntriesCached(pp) ==
    << [res |-> "view_uniforms", tex |-> NoTex],
       [res |-> "light_binding", tex |-> NoTex],
       [res |-> "post_process", tex |-> <<pp.source[1], 0>>],
       [res |-> "cloud_pipeline.sampler", tex |-> NoTex],
       [res |-> "texture.texture_view", tex |-> NoTex],
       [res |-> "texture.sampler", tex |-> NoTex],
       [res |-> "settings_binding", tex |-> NoTex] >>

\* BindGroupEntries::sequential((...)): the seven resources, in order.
BindGroupEntries(pp) ==
    << [res |-> "view_uniforms", tex |-> NoTex],
       [res |-> "light_binding", tex |-> NoTex],
       [res |-> "post_process", tex |-> pp.source],
       [res |-> "cloud_pipeline.sampler", tex |-> NoTex],
       [res |-> "texture.texture_view", tex |-> NoTex],
       [res |-> "texture.sampler", tex |-> NoTex],
       [res |-> "settings_binding", tex |-> NoTex] >>

ColorAttachmentViewSource(pp) == pp.source

\* RenderPassColorAttachment { view: post_process.destination, .. }
ColorAttachmentView(pp) == pp.destination

EarlyReturnRequeue(v, pp, wrote) ==
    [NoRun EXCEPT !.invoked = TRUE, !.view = v, !.result = "Ok", !.absent = Absent,
                  !.flipped = wrote,
                  !.source = IF wrote THEN pp.source ELSE NoTex,
                  !.destination = IF wrote THEN pp.destination ELSE NoTex,
                  !.queued = IF "pipeline" \in Absent THEN 1 ELSE 0]

\* Operations::default() of wgpu: clear to the default color on load, store.
Operations_default == [load |-> "Clear", store |-> TRUE]

\* RenderPassColorAttachment { view: post_process.destination,
\*   resolve_target: None, ops: Operations::default() }
RenderPassColorAttachment(pp) ==
    [view |-> ColorAttachmentView(pp), resolve_target |-> "None",
     ops |-> Operations_default]

\* An early return: Ok(()) with nothing created, begun or drawn.
EarlyReturn(v, pp, wrote) ==
    [NoRun EXCEPT !.invoked = TRUE, !.view = v, !.result = "Ok", !.absent = Absent,
                  !.flipped = wrote,
                  !.source = IF wrote THEN pp.source ELSE NoTex,
                  !.destination = IF wrote THEN pp.destination ELSE NoTex]

DrawOffsetsSwapped(v, pp) ==
    [invoked |-> TRUE, view |-> v, result |-> "Ok", absent |-> Absent,
     flipped |-> TRUE, source |-> pp.source, destination |-> pp.destination,
     bind_groups |-> 1, entries |-> BindGroupEntries(pp),
     passes |-> 1, target |-> ColorAttachmentView(pp),
     color_attachments |-> << RenderPassColorAttachment(pp) >>,
     depth_stencil |-> "None",
     commands |-> << "set_render_pipeline", "set_bind_group", "draw" >>,
     pipeline_set |-> TRUE, group |-> 0,
     offsets |-> << <<"view_lights_uniform_offset", v>>, <<"view_uniform_offset", v>> >>,
     draws |-> 1, vertices |-> 3, instances |-> 1, queued |-> 0]

DrawWithDepthStencil(v, pp) ==
    [invoked |-> TRUE, view |-> v, result |-> "Ok", absent |-> Absent,
     flipped |-> TRUE, source |-> pp.source, destination |-> pp.destination,
     bind_groups |-> 1, entries |-> BindGroupEntries(pp),
     passes |-> 1, target |-> ColorAttachmentView(pp),
     color_attachments |-> << RenderPassColorAttachment(pp) >>,
     depth_stencil |-> "Some",
     commands |-> << "set_render_pipeline", "set_bind_group", "draw" >>,
     pipeline_set |-> TRUE, group |-> 0,
     offsets |-> << <<"view_uniform_offset", v>>, <<"view_lights_uniform_offset", v>> >>,
     draws |-> 1, vertices |-> 3, instances |-> 1, queued |-> 0]

\* The rest of run: one bind group, one render pass with one color attachment
\* and no depth/stencil attachment, the pipeline, the bind group at index 0
\* with the two dynamic offsets, one draw of 0..3, 0..1.
Draw(v, pp) ==
    [invoked |-> TRUE, view |-> v, result |-> "Ok", absent |-> Absent,
     flipped |-> TRUE, source |-> pp.source, destination |-> pp.destination,
     bind_groups |-> 1, entries |-> BindGroupEntries(pp),
     passes |-> 1, target |-> ColorAttachmentView(pp),
     color_attachments |-> << RenderPassColorAttachment(pp) >>,
     depth_stencil |-> "None",
     commands |-> << "set_render_pipeline", "set_bind_group", "draw" >>,
     pipeline_set |-> TRUE, group |-> 0,
     offsets |-> << <<"view_uniform_offset", v>>, <<"view_lights_uniform_offset", v>> >>,
     draws |-> 1, vertices |-> 3, instances |-> 1, queued |-> 0]

\* CloudRenderNode::run for view v, as the record of what it did.
run(v) ==
    IF ChecksBeforeWrite(build) \cap Absent # {}
    THEN EarlyReturn(v, post_process_write(v), FALSE)
    ELSE IF ChecksAfterWrite(build) \cap Absent # {}
         THEN EarlyReturn(v, post_process_write(v), TRUE)
         ELSE Draw(v, post_process_write(v))

\* What the pass leaves in its target: the source's content with the clouds
\* composited over it.
Composite(content) == IF content = "scene" THEN "clouds" ELSE content

\* ------------------------------------------------------------------ actions
\* The asset server's task runs VolumeLoader::load to its end: Ok(image) is
\* published, an Err or a panic publishes nothing. The render world takes up
\* assets and compiled pipelines between graph runs, never during one.
LoadVolume ==
    /\ asset.status = "loading"
    /\ cur = 0
    /\ LET r == load(request)
       IN asset' = [status |-> IF r.outcome = "Ok" THEN "loaded" ELSE "failed",
                    result |-> r]
    /\ UNCHANGED <<request, nodeVars>>

\* PipelineCache::process_queue compiles the pipeline queued by from_world.
CompilePipeline ==
    /\ pipeline = "queued"
    /\ cur = 0
    /\ pipeline' = "ok"
    /\ UNCHANGED <<build, request, asset, task, cloud_pipeline, queued, cloud_volume, uniforms, frame,
                   main_texture, tex, ran, cur, done, seen, last>>

\* ... or fails to: the shader does not compile.
FailPipeline ==
    /\ pipeline = "queued"
    /\ cur = 0
    /\ pipeline' = "err"
    /\ UNCHANGED <<build, request, asset, task, cloud_pipeline, queued, cloud_volume, uniforms, frame,
                   main_texture, tex, ran, cur, done, seen, last>>

\* A frame begins: the host extracts CloudVolume (once load_volume has run) and
\* prepares the uniform buffers, any of which may have no binding yet.
BeginFrame ==
    /\ cur = 0
    /\ done = Views
    /\ frame < MaxFrames
    /\ frame' = frame + 1
    /\ done' = {}
    /\ cloud_volume' \in {cloud_volume, TRUE}
    /\ uniforms' \in SUBSET UniformNames
    /\ tex' = [v \in Views |-> [i \in 0..1 |-> "stale"]]
    /\ seen' = [v \in Views |-> "none"]
    /\ UNCHANGED <<build, request, asset, task, pipeline, cloud_pipeline, queued,
                   main_texture, cur, ran, last>>

\* The camera driver starts the 3D graph for a view.
StartView(v) ==
    /\ cur = 0
    /\ v \in Views \ done
    /\ cur' = v
    /\ ran' = <<>>
    /\ UNCHANGED <<build, request, asset, task, pipeline, cloud_pipeline, queued,
                   cloud_volume, uniforms, frame,
                   main_texture, tex, done, seen, last>>

RanSet == { ran[i] : i \in 1..Len(ran) }

\* The host's main pass draws the scene into the view's main texture.
RunMainPass ==
    /\ cur # 0
    /\ Ready(MAIN_PASS, RanSet)
    /\ ran' = Append(ran, MAIN_PASS)
    /\ tex' = [tex EXCEPT ![cur][main_texture[cur]] = "scene"]
    /\ UNCHANGED <<build, request, asset, task, pipeline, cloud_pipeline, queued,
                   cloud_volume, uniforms, frame,
                   main_texture, cur, done, seen, last>>

RunEndMainPass ==
    /\ cur # 0
    /\ Ready(END_MAIN_PASS, RanSet)
    /\ ran' = Append(ran, END_MAIN_PASS)
    /\ UNCHANGED <<build, request, asset, task, pipeline, cloud_pipeline, queued,
                   cloud_volume, uniforms, frame,
                   main_texture, tex, cur, done, seen, last>>

\* ViewNodeRunner<CloudRenderNode> runs the node for the view.
RunCloudNode ==
    /\ cur # 0
    /\ Ready(NAME, RanSet)
    /\ ran' = Append(ran, NAME)
    /\ LET r == run(cur)
       IN /\ last' = r
          /\ queued' = queued + r.queued
          /\ main_texture' = IF r.flipped
                             THEN [main_texture EXCEPT ![r.destination[1]] = r.destination[2]]
                             ELSE main_texture
          /\ tex' = IF r.draws > 0
                    THEN [tex EXCEPT ![r.target[1]][r.target[2]] =
                                         Composite(tex[r.source[1]][r.source[2]])]
                    ELSE tex
    /\ UNCHANGED <<build, request, asset, task, pipeline, cloud_pipeline, cloud_volume,
                   uniforms, frame, cur, done, seen>>

\* Bloom reads the view's main texture.
RunBloom ==
    /\ cur # 0
    /\ Ready(BLOOM, RanSet)
    /\ ran' = Append(ran, BLOOM)
    /\ seen' = [seen EXCEPT ![cur] = tex[cur][main_texture[cur]]]
    /\ UNCHANGED <<build, request, asset, task, pipeline, cloud_pipeline, queued,
                   cloud_volume, uniforms, frame,
                   main_texture, tex, cur, done, last>>

\* The view's graph has run.
EndView ==
    /\ cur # 0
    /\ RanSet = GraphNodes
    /\ done' = done \cup {cur}
    /\ cur' = 0
    /\ ran' = <<>>
    /\ last' = NoRun
    /\ UNCHANGED <<build, request, asset, task, pipeline, cloud_pipeline, queued,
                   cloud_volume, uniforms, frame,
                   main_texture, tex, seen>>

Next ==
    \/ LoadVolume
    \/ CompilePipeline
    \/ FailPipeline
    \/ BeginFrame
    \/ \E v \in Views : StartView(v)
    \/ RunMainPass
    \/ RunEndMainPass
    \/ RunCloudNode
    \/ RunBloom
    \/ EndView

Spec == Init /\ [][Next]_vars

\* The render schedule keeps running the frames it has, and the task pool
\* keeps running the load it was given.
RenderStep ==
    \/ BeginFrame
    \/ \E v \in Views : StartView(v)
    \/ RunMainPass
    \/ RunEndMainPass
    \/ RunCloudNode
    \/ RunBloom
    \/ EndView

\* The worked example, or a file that cannot be read.
InitFair ==
    /\ InitNode
    /\ request \in {ExampleStream, Stream("io_error", UnitBox, <<>>)}
    /\ asset = Loading
    /\ task = Idle(0)

SpecFair == InitFair /\ [][Next]_vars /\ WF_vars(RenderStep) /\ WF_vars(LoadVolume)

\* ------------------------------------------ the decoder alone, on every input
InitDecode ==
    /\ InitNode
    /\ build = "node_rs"
    /\ request \in { Stream("ok", b, <<>>) : b \in Boxes } \cup BadStreams
    /\ asset = Loading
    /\ task = Idle(0)

\* The stream to load holds one more voxel.
WriteVoxel ==
    /\ asset.status = "loading"
    /\ request.stream = "ok"
    /\ Len(request.entries) < MaxEntries
    /\ \E v \in NextVoxels([aabb_min |-> request.aabb_min, aabb_max |-> request.aabb_max],
                            request.entries) :
          request' = [request EXCEPT !.entries = Append(@, v)]
    /\ UNCHANGED <<asset, nodeVars>>

NextDecode == WriteVoxel \/ LoadVolume

SpecDecode == InitDecode /\ [][NextDecode]_vars

\* ------------------------------- the load task step by step, among the frames
\* The Image load builds once the loop has filled image_data.
Image(size, data) ==
    [size |-> size, data |-> data, dimension |-> "D3", format |-> "R16Float",
     mip_level_count |-> 1, address_mode |-> "ClampToEdge", filter |-> "Linear"]

Requested(loads) == [Idle(loads) EXCEPT !.pc = "requested"]

Returned(loads, r) == [Idle(loads) EXCEPT !.pc = "returned", !.result = r]

InitLoad ==
    /\ InitNode
    /\ build = "node_rs"
    /\ request \in SampleStreams
    /\ asset = Loading
    /\ task = Requested(1)

\* load up to image_data.resize: the stream is read and parsed, the metadata
\* taken and the zeroed buffer allocated, or load ends with an Err or a panic.
ReadStream ==
    /\ task.pc = "requested"
    /\ task' = IF request.stream = "ok"
               THEN LET size == Extent3d(Extent(request.aabb_min, request.aabb_max))
                    IN [task EXCEPT !.pc = "filling", !.next = 1, !.size = size,
                                    !.image_data = [k \in 1..ByteLen(size) |-> 0]]
               ELSE Returned(task.loads, load(request))
    /\ UNCHANGED <<build, request, asset, pipeline, cloud_pipeline, queued,
                   cloud_volume, uniforms, frame, main_texture, tex, cur, ran,
                   done, seen, last>>

\* One turn of the fill loop: the next voxel's two bytes are written into the
\* task's own image_data, or the index is out of range and the task panics.
FillVoxel ==
    /\ task.pc = "filling"
    /\ task.next <= Len(request.entries)
    /\ LET f == Fill(<<request.entries[task.next]>>, 1, task.image_data,
                     request.aabb_min, task.size)
       IN task' = IF f.panic THEN Returned(task.loads, LoadPanic(TRUE))
                  ELSE [task EXCEPT !.next = @ + 1, !.image_data = f.data]
    /\ UNCHANGED <<build, request, asset, pipeline, cloud_pipeline, queued,
                   cloud_volume, uniforms, frame, main_texture, tex, cur, ran,
                   done, seen, last>>

ReturnImageEarly ==
    /\ task.pc = "filling"
    /\ task' = Returned(task.loads, LoadOk(Image(task.size, task.image_data)))
    /\ UNCHANGED <<build, request, asset, pipeline, cloud_pipeline, queued,
                   cloud_volume, uniforms, frame, main_texture, tex, cur, ran,
                   done, seen, last>>

\* The loop is over: image_data is moved into the Image and load returns it.
ReturnImage ==
    /\ task.pc = "filling"
    /\ task.next > Len(request.entries)
    /\ task' = Returned(task.loads, LoadOk(Image(task.size, task.image_data)))
    /\ UNCHANGED <<build, request, asset, pipeline, cloud_pipeline, queued,
                   cloud_volume, uniforms, frame, main_texture, tex, cur, ran,
                   done, seen, last>>

\* The asset server takes the task's result and the render world the asset,
\* between graph runs: an image replaces what the handle held, a failed first
\* load leaves it without an image, a failed reload leaves the image it had.
Publish ==
    /\ task.pc = "returned"
    /\ cur = 0
    /\ asset' = IF task.result.outcome = "Ok"
                THEN [status |-> "loaded", result |-> task.result]
                ELSE IF asset.status = "loaded" THEN asset
                ELSE [status |-> "failed", result |-> task.result]
    /\ task' = Idle(task.loads)
    /\ UNCHANGED <<build, request, pipeline, cloud_pipeline, queued,
                   cloud_volume, uniforms, frame, main_texture, tex, cur, ran,
                   done, seen, last>>

\* The volume file changes on disk and the asset server, watching for changes,
\* loads it again.
Reload ==
    /\ task.pc = "idle"
    /\ asset.status # "loading"
    /\ task.loads < MaxLoads
    /\ request' \in SampleStreams
    /\ task' = Requested(task.loads + 1)
    /\ UNCHANGED <<build, asset, pipeline, cloud_pipeline, queued,
                   cloud_volume, uniforms, frame, main_texture, tex, cur, ran,
                   done, seen, last>>

NextLoad ==
    \/ ReadStream
    \/ FillVoxel
    \/ ReturnImage
    \/ Publish
    \/ Reload
    \/ CompilePipeline
    \/ FailPipeline
    \/ BeginFrame
    \/ \E v \in Views : StartView(v)
    \/ RunMainPass
    \/ RunEndMainPass
    \/ RunCloudNode
    \/ RunBloom
    \/ EndView

SpecLoad == InitLoad /\ [][NextLoad]_vars

\* ------------------------------------------------------------------- claims
RequestBox == [aabb_min |-> request.aabb_min, aabb_max |-> request.aabb_max]

Decoded == asset.status # "loading"

Populated == { request.entries[i].pos : i \in 1..Len(request.entries) }

\* Every populated position of the stream's grid lies in [aabb_min, aabb_max].
WellFormed == request.stream = "ok" /\ Populated \subseteq InBox(RequestBox)

\* The reader's side: the half-precision pattern of the texel at pos, in a
\* texture of the declared size laid out x first, then y, then z.
ReadVoxel(img, aabb_min, pos) ==
    LET texel == (pos[1] - aabb_min[1])
                 + (pos[2] - aabb_min[2]) * img.size[1]
                 + (pos[3] - aabb_min[3]) * img.size[1] * img.size[2]
    IN img.data[2 * texel + 1] + 256 * img.data[2 * texel + 2]

NothingSubmitted(r) == r.bind_groups = 0 /\ r.passes = 0 /\ r.draws = 0

C2_SourceIsNotDestination ==
    (last.invoked /\ last.passes > 0) =>
        /\ last.entries[3].tex # last.target
        /\ {last.entries[3].tex, last.target} = {<<last.view, 0>>, <<last.view, 1>>}

\* C2 witness: a draw in a later frame, after the pair has flipped before.
C2_Witness ==
    /\ last.invoked /\ last.draws = 1 /\ frame >= 2
    /\ last.entries[3].tex = <<last.view, 1>>
    /\ last.target = <<last.view, 0>>

Before(a, b) ==
    \E i, j \in 1..Len(ran) : i < j /\ ran[i] = a /\ ran[j] = b

\* C3: for every view and frame, the cloud node runs only after the main pass
\* and END_MAIN_PASS have run, and bloom runs only after the cloud node.
C3_AfterMainPassBeforeBloom ==
    /\ PluginNodes = {NAME}
    /\ NAME \in RanSet => Before(MAIN_PASS, NAME) /\ Before(END_MAIN_PASS, NAME)
    /\ BLOOM \in RanSet => Before(NAME, BLOOM)

\* C3 witness: a view's graph has run all four stages.
C3_Witness ==
    cur # 0 /\ ran = <<MAIN_PASS, END_MAIN_PASS, NAME, BLOOM>>

\* C4: a well-formed grid decodes, every populated voxel reads back as its
\* value, and every other voxel of the box reads as 0.
C4_RoundTrip ==
    (Decoded /\ WellFormed) =>
        /\ asset.result.outcome = "Ok"
        /\ \A i \in 1..Len(request.entries) :
              ReadVoxel(asset.result.image, request.aabb_min, request.entries[i].pos)
                  = request.entries[i].value
        /\ \A p \in InBox(RequestBox) \ Populated :
              ReadVoxel(asset.result.image, request.aabb_min, p) = 0

\* C4 witness: two voxels decoded into a box whose width and height differ.
C4_Witness ==
    /\ Decoded /\ WellFormed /\ Len(request.entries) = 2
    /\ asset.result.image.size[1] # asset.result.image.size[2]
    /\ asset.result.image.size[3] > 1

\* C5 (as claimed): an accepted input has an extent > 0 on every axis, and an
\* input with an extent component <= 0 is rejected with an error before the
\* buffer is allocated.
C5_NonPositiveExtentRejected ==
    (Decoded /\ request.stream = "ok") =>
        LET aabb == Extent(request.aabb_min, request.aabb_max)
        IN /\ asset.result.outcome = "Ok" => \A k \in 1..3 : aabb[k] > 0
           /\ (\E k \in 1..3 : aabb[k] <= 0) =>
                  asset.result.outcome = "Err" /\ ~asset.result.allocated

\* C6 (as claimed): a grid with a populated position outside the box fails
\* with an error value, CorruptGrid.
C6_OutOfBoxIsCorruptGrid ==
    (Decoded /\ request.stream = "ok" /\ ~WellFormed) =>
        asset.result.outcome = "Err" /\ asset.result.error = "CorruptGrid"

\* C7: the buffer of an accepted input is width * height * depth * 2 bytes
\* long, for the size the texture declares.
C7_ByteLength ==
    (Decoded /\ asset.result.outcome = "Ok") =>
        Len(asset.result.image.data) =
            asset.result.image.size[1] * asset.result.image.size[2]
                * asset.result.image.size[3] * 2

\* C7 witness: the single-voxel volume.
C7_Witness ==
    /\ Decoded /\ asset.result.outcome = "Ok"
    /\ asset.result.image.size = <<1, 1, 1>>
    /\ Len(request.entries) = 1

\* C8: the worked example decodes under the inclusive convention: extent
\* (2,2,2), a buffer of 2*2*2 texels, 1.0 at (0,0,0), 0.5 at (1,1,1) and 0.0 in
\* every other voxel.
C8_WorkedExample ==
    (Decoded /\ request = ExampleStream) =>
        /\ asset.result.outcome = "Ok"
        /\ asset.result.image.size = <<2, 2, 2>>
        /\ Len(asset.result.image.data) = 2 * (2 * 2 * 2)
        /\ ReadVoxel(asset.result.image, <<0, 0, 0>>, <<0, 0, 0>>) = 15360
        /\ ReadVoxel(asset.result.image, <<0, 0, 0>>, <<1, 1, 1>>) = 14336
        /\ \A p \in InBox(UnitBox) \ {<<0, 0, 0>>, <<1, 1, 1>>} :
              ReadVoxel(asset.result.image, <<0, 0, 0>>, p) = 0

\* C8 witness: the worked example has been decoded.
C8_Witness ==
    Decoded /\ request = ExampleStream /\ asset.result.outcome = "Ok"

\* C9 (as claimed): every decode ends with a texture or with an error value,
\* never with a panic.
C9_DecodeNeverPanics ==
    Decoded => asset.result.outcome \in {"Ok", "Err"}

Layout == cloud_pipeline.post_process_layout

IsUniform(e, dynamic, stages) ==
    /\ e.ty = "Buffer" /\ e.buffer = "Uniform"
    /\ e.has_dynamic_offset = dynamic /\ e.visibility = stages

IsFloatTexture(e, dimension) ==
    /\ e.ty = "Texture" /\ e.sample_type = "Float { filterable: true }"
    /\ e.view_dimension = dimension /\ e.visibility = {"FRAGMENT"}

IsFilteringSampler(e) ==
    e.ty = "Sampler" /\ e.sampler = "Filtering" /\ e.visibility = {"FRAGMENT"}

SettingsRecord == CloudSettings(build)

FieldNames(rec) == [i \in 1..Len(rec) |-> rec[i].name]

FieldTypes(rec) == [i \in 1..Len(rec) |-> rec[i].ty]

\* C12 (as claimed): the settings record has exactly the fields bounds_min,
\* bounds_max (vec3 f32), steps, light_steps (u32), light_scattering,
\* light_absorption, darkness_threshold, ray_offset_strength, base_brightness,
\* phase_factor (f32), in this order.
C12_SettingsFieldsAsClaimed ==
    /\ FieldNames(SettingsRecord) =
          << "bounds_min", "bounds_max", "steps", "light_steps", "light_scattering",
             "light_absorption", "darkness_threshold", "ray_offset_strength",
             "base_brightness", "phase_factor" >>
    /\ FieldTypes(SettingsRecord) =
          << "Vec3", "Vec3", "u32", "u32", "f32", "f32", "f32", "f32", "f32", "f32" >>

\* C12 (amended): the settings record starts with bounds_min, bounds_max (vec3
\* f32), steps, light_steps (u32), light_absorption and holds only f32 fields
\* after them: light_absorption_sun, darkness_threshold, ray_offset_strength,
\* forward_scattering, back_scattering, base_brightness, phase_factor in
\* cloud/settings.rs; light_transmittance, light_absorption_sun,
\* darkness_threshold in cloud.rs. No field is named light_scattering.
C12_SettingsFields ==
    /\ FieldNames(SettingsRecord) =
          << "bounds_min", "bounds_max", "steps", "light_steps", "light_absorption" >>
          \o (IF build = "node_rs"
              THEN << "light_absorption_sun", "darkness_threshold",
                      "ray_offset_strength", "forward_scattering", "back_scattering",
                      "base_brightness", "phase_factor" >>
              ELSE << "light_transmittance", "light_absorption_sun",
                      "darkness_threshold" >>)
    /\ \A i \in 1..Len(SettingsRecord) :
          SettingsRecord[i].ty = IF i <= 2 THEN "Vec3" ELSE IF i <= 4 THEN "u32" ELSE "f32"

\* C12 witness: a draw has bound the settings uniform of cloud/settings.rs.
C12_Witness ==
    /\ build = "node_rs" /\ last.draws = 1
    /\ last.entries[7].res = "settings_binding"
    /\ Len(SettingsRecord) = 12

\* C13: once the pipeline's compilation has failed, every invocation of the
\* node, in every later frame and for every view, returns Ok(()) at the
\* pipeline check without touching the view target or submitting anything, the
\* pipeline stays failed and no pipeline is queued again.
C13_FailedCompileDisablesEffect ==
    /\ [](pipeline = "err" =>
            (last.invoked =>
                /\ "pipeline" \in last.absent
                /\ NothingSubmitted(last)
                /\ last.result = "Ok"
                /\ ~last.flipped))
    /\ [][pipeline = "err" => pipeline' = "err" /\ queued' = queued]_vars

\* C13 witness: after a failed compilation the node has run for the second
\* view in the second frame, with everything but the pipeline ready.
C13_Witness ==
    /\ pipeline = "err" /\ frame >= 2
    /\ last.invoked /\ last.view = 2 /\ last.absent = {"pipeline"}

\* C14: one pipeline is queued over the whole run, by from_world; the resource
\* that holds its id, the layout and the sampler never changes, and no
\* invocation of the node queues a pipeline.
C14_PipelineBuiltOnce ==
    /\ [](queued = 1 /\ last.queued = 0 /\ cloud_pipeline.pipeline_id = 0)
    /\ [][cloud_pipeline' = cloud_pipeline]_vars

\* C14 witness: in the second frame the node has found the pipeline still not
\* compiled, and one pipeline is queued.
C14_Witness ==
    /\ frame >= 2 /\ last.invoked /\ "pipeline" \in last.absent
    /\ pipeline = "queued" /\ queued = 1

\* C15 (as claimed): an invocation that flips the view's main texture writes
\* the destination in that same invocation, an invocation that returns early
\* leaves the main texture where the main pass drew, and the stage after the
\* node finds the frame's scene color, plain or with the clouds, in the main
\* texture.
C15_FlipImpliesWrite ==
    /\ (last.invoked /\ last.flipped) =>
          last.draws = 1 /\ last.target = last.destination
    /\ (last.invoked /\ last.draws = 0) =>
          tex[last.view][main_texture[last.view]] = "scene"
    /\ \A v \in Views : seen[v] \in {"none", "scene", "clouds"}

Bound(r) == [i \in 1..Len(r.entries) |-> r.entries[i].res]

\* C16: every drawing invocation creates its one bind group from the seven
\* resources in layout order; the texture at binding 2 is the source and the
\* render target the destination of the post_process_write of that same
\* invocation, that is the view's main texture as the main pass left it and the
\* view's main texture from now on: nothing of an earlier frame is used.
C16_BindingSetFresh ==
    last.draws = 1 =>
        /\ last.bind_groups = 1
        /\ Bound(last) = << "view_uniforms", "light_binding", "post_process",
                            "cloud_pipeline.sampler", "texture.texture_view",
                            "texture.sampler", "settings_binding" >>
        /\ last.entries[3].tex = last.source
        /\ last.target = last.destination
        /\ last.source = <<last.view, 1 - main_texture[last.view]>>
        /\ last.destination = <<last.view, main_texture[last.view]>>
        /\ tex[last.view][1 - main_texture[last.view]] = "scene"

\* C16 witness: the second view draws in the second frame, its pair the other
\* way round than in the first frame.
C16_Witness ==
    /\ last.draws = 1 /\ last.view = 2 /\ frame = 2
    /\ last.entries[3].tex = <<2, 1>> /\ last.target = <<2, 0>>

DynamicBindings ==
    { Layout[i].binding : i \in { j \in 1..Len(Layout) : Layout[j].has_dynamic_offset } }

\* C17: an invocation with every precondition present sets the pipeline, sets
\* the bind group at index 0 with the view's two dynamic offsets, the view
\* uniform's first and the light uniform's second, as bindings 0 and 1 are
\* the layout's dynamic ones, and then draws once: 3 vertices, 1 instance.
C17_OneDraw ==
    (last.invoked /\ last.absent = {}) =>
        /\ last.commands = << "set_render_pipeline", "set_bind_group", "draw" >>
        /\ last.draws = 1 /\ last.vertices = 3 /\ last.instances = 1
        /\ last.pipeline_set /\ last.group = 0
        /\ last.offsets = << <<"view_uniform_offset", last.view>>,
                             <<"view_lights_uniform_offset", last.view>> >>
        /\ DynamicBindings = {0, 1}
        /\ Len(last.offsets) = Cardinality(DynamicBindings)
        /\ Layout[1].min_binding_size = "ViewUniform"
        /\ Layout[2].min_binding_size = "GpuLights"

\* C17 witness: the run of cloud.rs draws with every precondition present.
C17_Witness ==
    /\ build = "cloud_rs" /\ last.invoked /\ last.absent = {}
    /\ last.draws = 1 /\ Len(last.offsets) = 2

\* C18 (as claimed): a drawing invocation begins one render pass with the
\* destination as its single color attachment, without depth/stencil
\* attachment, and its color load operation does not clear.
C18_PassDoesNotClear ==
    last.draws = 1 =>
        /\ last.passes = 1
        /\ Len(last.color_attachments) = 1
        /\ last.color_attachments[1].view = last.destination
        /\ last.depth_stencil = "None"
        /\ last.color_attachments[1].ops.load # "Clear"

\* C18 (amended): a drawing invocation begins one render pass with the
\* destination as its single color attachment, without resolve target or
\* depth/stencil attachment, and with the default color operations: clear on
\* load, store. What the destination held before is gone; after the pass it
\* holds the scene with the clouds.
C18_PassClearsThenStores ==
    last.draws = 1 =>
        /\ last.passes = 1
        /\ Len(last.color_attachments) = 1
        /\ last.color_attachments[1].view = last.destination
        /\ last.color_attachments[1].resolve_target = "None"
        /\ last.depth_stencil = "None"
        /\ last.color_attachments[1].ops = [load |-> "Clear", store |-> TRUE]
        /\ tex[last.destination[1]][last.destination[2]] = "clouds"

\* C18 witness: a pass has been begun on the first view's second texture.
C18_Witness ==
    /\ last.passes = 1 /\ Len(last.color_attachments) = 1
    /\ last.color_attachments[1].view = <<1, 1>>

\* C19: an invocation for a view acquires, binds and targets textures of that
\* view's pair only and passes that view's dynamic offsets; the step that runs
\* it leaves every other view's main-texture designation and textures as they
\* were, and leaves the pipeline, its resource and the volume asset untouched.
\* This holds for the views of a frame taken in any order.
C19_ViewsIsolated ==
    /\ [](last.invoked =>
            /\ last.flipped =>
                  last.source[1] = last.view /\ last.destination[1] = last.view
            /\ last.draws = 1 =>
                  /\ last.entries[3].tex[1] = last.view
                  /\ last.target[1] = last.view
                  /\ \A i \in 1..Len(last.offsets) : last.offsets[i][2] = last.view
                  /\ \A i \in 1..Len(last.entries) :
                        i # 3 => last.entries[i].tex = NoTex)
    /\ [][ran' = Append(ran, NAME) =>
            /\ \A w \in Views \ {cur} :
                  main_texture'[w] = main_texture[w] /\ tex'[w] = tex[w]
            /\ cloud_pipeline' = cloud_pipeline
            /\ pipeline' = pipeline
            /\ asset' = asset]_vars

\* C19 witness: in one frame the second view has drawn first, then the first
\* view draws, the two pairs standing differently.
C19_Witness ==
    /\ cur = 1 /\ done = {2} /\ seen[2] = "clouds"
    /\ last.draws = 1 /\ last.view = 1
    /\ main_texture[1] # main_texture[2]

\* C20: however the steps of the load task fall among the frames, the texture
\* the node can find is absent or is the whole decode of a stream, never a
\* buffer the fill loop is still writing; the node draws only with a loaded
\* texture; and what the handle holds changes only when a finished load is
\* taken up, to the whole image that load returned, a reload included.
C20_PublishedWhole ==
    /\ [](Present("texture") =>
            /\ asset.result.outcome = "Ok"
            /\ \E r \in SampleStreams : asset.result = load(r))
    /\ [](last.draws = 1 => asset.status = "loaded")
    /\ [][asset' # asset =>
            /\ task.pc = "returned"
            /\ asset'.result = task.result
            /\ asset'.status = "loaded" => asset'.result = load(request)]_vars

\* C20 witness: the node draws with the published texture while a reload has
\* written the first of its two voxels into its own buffer.
C20_Witness ==
    /\ last.draws = 1 /\ asset.status = "loaded"
    /\ task.pc = "filling" /\ task.loads = 2
    /\ task.next = 2 /\ Len(request.entries) = 2
    /\ task.image_data # asset.result.image.data

\* Everything run looks at is there: the decode has succeeded and its image is
\* in the render world, the pipeline is compiled, the three uniforms are bound.
AllReady ==
    /\ asset.status = "loaded" /\ cloud_volume
    /\ pipeline = "ok"
    /\ uniforms = {"view", "light", "settings"}

\* C21: while the decode has not completed, in however many frames, every
\* invocation of the node returns Ok(()) having submitted nothing (and the
\* node of node.rs having left the view target alone); every invocation with
\* the decoded texture, the compiled pipeline and the three uniforms there
\* draws; and a load the task pool keeps running ends, the worked example's
\* with its texture published.
C21_AbsentToleratedReadyDraws ==
    /\ [](last.invoked /\ asset.status = "loading" =>
            /\ "texture" \in last.absent
            /\ NothingSubmitted(last)
            /\ last.result = "Ok"
            /\ build = "node_rs" => ~last.flipped)
    /\ [](last.invoked /\ AllReady =>
            last.draws = 1 /\ last.result = "Ok" /\ last.absent = {})
    /\ (asset.status = "loading") ~>
          (IF request = ExampleStream THEN asset.status = "loaded"
           ELSE asset.status = "failed")

\* C21 witness: the node of node.rs returned early in the first frame and left
\* the view's pair alone; in the second frame everything is there and it
\* draws, flipping the pair for the first time.
C21_Witness ==
    /\ build = "node_rs" /\ frame = 2 /\ AllReady
    /\ last.draws = 1 /\ last.source = <<last.view, 0>>

\* The two bytes the fill loop writes for the voxel at pos.
Slot(pos) ==
    LET index == IndexOf(pos, request.aabb_min,
                         Extent3d(Extent(request.aabb_min, request.aabb_max)))
    IN {index, index + 1}

\* C22: for the box of every stream, taken as the stream is handed over with
\* its voxels still to come, the slots of two distinct positions of the box
\* are disjoint and both bytes of every slot lie below the buffer's length;
\* so the decode of a grid populated inside its box never panics and leaves
\* in each populated voxel's slot the bytes of that voxel.
C22_IndexInjectiveInRange ==
    request.stream = "ok" =>
        /\ request.entries = <<>> =>
              \A p \in InBox(RequestBox) :
                 /\ \A i \in Slot(p) :
                       i >= 0 /\ i < ByteLen(Extent3d(Extent(request.aabb_min,
                                                             request.aabb_max)))
                 /\ \A q \in InBox(RequestBox) : p # q => Slot(p) \cap Slot(q) = {}
        /\ (Decoded /\ WellFormed) =>
              /\ asset.result.outcome = "Ok"
              /\ \A i \in 1..Len(request.entries) :
                    \A k \in 1..2 :
                        asset.result.image.data[
                            IndexOf(request.entries[i].pos, request.aabb_min,
                                    asset.result.image.size) + k]
                            = to_ne_bytes(request.entries[i].value)[k]

\* C22 witness: two voxels decoded into a box of two voxels a side, in which
\* every stride counts.
C22_Witness ==
    /\ Decoded /\ WellFormed /\ asset.result.outcome = "Ok"
    /\ asset.result.image.size = <<2, 2, 2>>
    /\ Cardinality(Populated) = 2
    /\ Cardinality(UNION { Slot(p) : p \in InBox(RequestBox) }) = 16

====
